---- MODULE Spec2Model ----
(***************************************************************************)
(* A model of the provisioning pipeline's UseSecurityClientStage           *)
(* (azure/iot/device/provisioning/pipeline/pipeline_stages_provisioning.py)*)
(* together with the pipeline machinery it is written against: the         *)
(* operation_flow helpers, the base stage's run_op, the pipeline thread    *)
(* and the stage that follows it in the chain.                             *)
(***************************************************************************)
EXTENDS Integers, Sequences, FiniteSets, TLC

\* The number of calls made into the pipeline in one run of the model.
MaxOps == 2

None == "None"

\* The threads that call Pipeline.run_op.
Callers == {"c1", "c2"}

\* The errors with which the next stage may complete an operation (distinct
\* from everything the stage or the pipeline itself raises).
Errors == {"E1"}

\* What a security client's getter may raise.
Exceptions == {"TokenError", "CertError"}

\* None for success, or an error.
Outcomes == {None} \cup Errors

\* The security clients a SetSymmetricKeySecurityClientOperation may carry:
\* sas_token is what get_current_sas_token() returns, or what it raises.
SymmetricKeySecurityClients ==
    { [provisioning_host |-> "h1", registration_id |-> "r1", id_scope |-> "s1",
       sas_token |-> "t1"],
      [provisioning_host |-> "h2", registration_id |-> "r2", id_scope |-> "s2",
       sas_token |-> "TokenError"] }

\* The security clients a SetX509SecurityClientOperation may carry:
\* x509_certificate is what get_x509_certificate() returns, or what it raises.
X509SecurityClients ==
    { [provisioning_host |-> "h1", registration_id |-> "r1", id_scope |-> "s1",
       x509_certificate |-> "c1"],
      [provisioning_host |-> "h2", registration_id |-> "r2", id_scope |-> "s2",
       x509_certificate |-> "CertError"] }

\* Operation kinds the stage does not handle.
OtherKinds == {"ConnectOperation"}
Payloads == {"p1"}

\* The events a lower stage may send up.
Events ==
    { [kind |-> k, payload |-> p] :
        k \in {"ConnectionStateChangedEvent", "MessageReceivedEvent"}, p \in Payloads }

get_current_sas_token(security_client) == security_client.sas_token
get_x509_certificate(security_client) == security_client.x509_certificate

-----------------------------------------------------------------------------
\* Operations. An operation's identity is its address in heap.

CallerCallback(c) == [fn |-> "caller_callback", caller |-> c, original_op |-> 0]
NoCallback == [fn |-> None, caller |-> None, original_op |-> 0]

SetSymmetricKeySecurityClientOperation(security_client, callback) ==
    [kind |-> "SetSymmetricKeySecurityClientOperation",
     security_client |-> security_client, callback |-> callback, error |-> None]

SetX509SecurityClientOperation(security_client, callback) ==
    [kind |-> "SetX509SecurityClientOperation",
     security_client |-> security_client, callback |-> callback, error |-> None]

OtherOperation(kind, payload, callback) ==
    [kind |-> kind, payload |-> payload, callback |-> callback, error |-> None]

SetProvisioningClientConnectionArgsOperation(provisioning_host, registration_id, id_scope, client_cert, sas_token) ==
    [kind |-> "SetProvisioningClientConnectionArgsOperation",
     provisioning_host |-> provisioning_host, registration_id |-> registration_id,
     id_scope |-> id_scope, client_cert |-> client_cert, sas_token |-> sas_token,
     callback |-> NoCallback, error |-> None]

\* The operations a caller may submit.
SubmittableOps(c) ==
    { SetSymmetricKeySecurityClientOperation(sc, CallerCallback(c)) :
        sc \in SymmetricKeySecurityClients }
    \cup { SetX509SecurityClientOperation(sc, CallerCallback(c)) :
        sc \in X509SecurityClients }
    \cup { OtherOperation(k, p, CallerCallback(c)) : k \in OtherKinds, p \in Payloads }

-----------------------------------------------------------------------------
\* UseSecurityClientStage._run_op: the calls its body makes for op, in order.
\* A call's arguments are evaluated before the call is made, so a getter that
\* raises ends the body before delegate_to_different_op is entered.

DelegateCall(new_op) == [call |-> "delegate_to_different_op", new_op |-> new_op]
RaiseCall(error) == [call |-> "raise", error |-> error]
PassCall == [call |-> "pass_op_to_next_stage"]

\* A symmetric-key branch that keeps the security client on the stage.
SymmetricKeyBranch_caching(op) ==
    LET security_client == op.security_client IN
    IF get_current_sas_token(security_client) \in Exceptions
    THEN << RaiseCall(get_current_sas_token(security_client)) >>
    ELSE << [call |-> "setattr", name |-> "security_client", value |-> security_client],
            DelegateCall(SetProvisioningClientConnectionArgsOperation(
                security_client.provisioning_host,
                security_client.registration_id,
                security_client.id_scope,
                None,
                get_current_sas_token(security_client))) >>

\* A symmetric-key branch that submits the new operation to the head of the
\* pipeline, where this stage receives it again.
SymmetricKeyBranch_resubmitted(op) ==
    LET security_client == op.security_client IN
    IF get_current_sas_token(security_client) \in Exceptions
    THEN << RaiseCall(get_current_sas_token(security_client)) >>
    ELSE << [call |-> "Pipeline.run_op",
             new_op |-> SetProvisioningClientConnectionArgsOperation(
                security_client.provisioning_host,
                security_client.registration_id,
                security_client.id_scope,
                None,
                get_current_sas_token(security_client))] >>

\* A symmetric-key branch that swallows what get_current_sas_token() raises.
SymmetricKeyBranch_swallowed(op) ==
    LET security_client == op.security_client IN
    IF get_current_sas_token(security_client) \in Exceptions
    THEN << >>
    ELSE << DelegateCall(SetProvisioningClientConnectionArgsOperation(
                security_client.provisioning_host,
                security_client.registration_id,
                security_client.id_scope,
                None,
                get_current_sas_token(security_client))) >>

\* A symmetric-key branch that gives registration_id and id_scope in each
\* other's place.
SymmetricKeyBranch_swapped(op) ==
    LET security_client == op.security_client IN
    IF get_current_sas_token(security_client) \in Exceptions
    THEN << RaiseCall(get_current_sas_token(security_client)) >>
    ELSE << DelegateCall(SetProvisioningClientConnectionArgsOperation(
                security_client.provisioning_host,
                security_client.id_scope,
                security_client.registration_id,
                None,
                get_current_sas_token(security_client))) >>

\* The branch for SetSymmetricKeySecurityClientOperation.
SymmetricKeyBranch(op) ==
    LET security_client == op.security_client IN
    IF get_current_sas_token(security_client) \in Exceptions
    THEN << RaiseCall(get_current_sas_token(security_client)) >>
    ELSE << DelegateCall(SetProvisioningClientConnectionArgsOperation(
                security_client.provisioning_host,
                security_client.registration_id,
                security_client.id_scope,
                None,
                get_current_sas_token(security_client))) >>

\* An X509 branch that waits, inside the step, for the original to be completed.
X509Branch_blocking(op) ==
    LET security_client == op.security_client IN
    IF get_x509_certificate(security_client) \in Exceptions
    THEN << RaiseCall(get_x509_certificate(security_client)) >>
    ELSE << DelegateCall(SetProvisioningClientConnectionArgsOperation(
                security_client.provisioning_host,
                security_client.registration_id,
                security_client.id_scope,
                get_x509_certificate(security_client),
                None)),
            [call |-> "wait_for_completion"] >>

\* An X509 branch that completes the original as soon as it has passed the
\* connection arguments down.
X509Branch_completes(op) ==
    LET security_client == op.security_client IN
    IF get_x509_certificate(security_client) \in Exceptions
    THEN << RaiseCall(get_x509_certificate(security_client)) >>
    ELSE << DelegateCall(SetProvisioningClientConnectionArgsOperation(
                security_client.provisioning_host,
                security_client.registration_id,
                security_client.id_scope,
                get_x509_certificate(security_client),
                None)),
            [call |-> "complete_op", error |-> None] >>

\* An X509 branch that submits the new operation to the head of the pipeline
\* instead of handing it to the next stage.
X509Branch_resubmitted(op) ==
    LET security_client == op.security_client IN
    IF get_x509_certificate(security_client) \in Exceptions
    THEN << RaiseCall(get_x509_certificate(security_client)) >>
    ELSE << [call |-> "Pipeline.run_op",
             new_op |-> SetProvisioningClientConnectionArgsOperation(
                security_client.provisioning_host,
                security_client.registration_id,
                security_client.id_scope,
                get_x509_certificate(security_client),
                None)] >>

\* An X509 branch that passes the certificate as sas_token.
X509Branch_as_token(op) ==
    LET security_client == op.security_client IN
    IF get_x509_certificate(security_client) \in Exceptions
    THEN << RaiseCall(get_x509_certificate(security_client)) >>
    ELSE << DelegateCall(SetProvisioningClientConnectionArgsOperation(
                security_client.provisioning_host,
                security_client.registration_id,
                security_client.id_scope,
                None,
                get_x509_certificate(security_client))) >>

\* The branch for SetX509SecurityClientOperation.
X509Branch(op) ==
    LET security_client == op.security_client IN
    IF get_x509_certificate(security_client) \in Exceptions
    THEN << RaiseCall(get_x509_certificate(security_client)) >>
    ELSE << DelegateCall(SetProvisioningClientConnectionArgsOperation(
                security_client.provisioning_host,
                security_client.registration_id,
                security_client.id_scope,
                get_x509_certificate(security_client),
                None)) >>

\* An else branch that sends a copy of the operation down in its place.
ElseBranch_copied(op) == << DelegateCall(op) >>

\* A stage whose else branch is missing: the operation is neither passed on
\* nor completed.
ElseBranch_dropped(op) == << >>

\* The branch for every other operation.
ElseBranch(op) == << PassCall >>

_run_op(op) ==
    IF op.kind = "SetSymmetricKeySecurityClientOperation" THEN SymmetricKeyBranch(op)
    ELSE IF op.kind = "SetX509SecurityClientOperation" THEN X509Branch(op)
    ELSE ElseBranch(op)

\* A _run_op without its decorator.
_run_op_undecorated == {}

\* The decorators of _run_op.
_run_op_decorators == {"runs_on_pipeline_thread"}

\* A stage that consumes every event.
handle_event_consuming(event) == << >>

\* A stage that answers an event with an operation for the next stage.
handle_event_reacting(event) ==
    << [call |-> "pass_event_to_previous_stage"],
       [call |-> "run_new_op",
        new_op |-> OtherOperation("ConnectOperation", event.payload, NoCallback)] >>

\* The stage's event handler: UseSecurityClientStage defines none, so an
\* event gets the base stage's handling.
handle_event(event) == << [call |-> "pass_event_to_previous_stage"] >>

-----------------------------------------------------------------------------
\* samples/pnp/pnp_helper.py: store_json collects telemetry messages and, a
\* chunk at a time, writes them to a file that store_blob uploads;
\* create_reported_properties_from_desired acknowledges a patch.

\* The largest chunk_size a run of the model is given.
MaxChunk == 2

Messages == {"m1", "m2"}
Timestamps == {"20200101000000", "20200101000001"}

\* A local variable not assigned yet is the empty sequence, an assigned one
\* the sequence of its value; an attribute not set likewise.
Unbound == << >>
Bound(v) == << v >>

\* Exceptions: the class, the message and the status_code attribute.
NoException == [type |-> None, args |-> None, status_code |-> Unbound]
Exc(type, message) == [type |-> type, args |-> message, status_code |-> Unbound]
HttpResponseError(message) ==
    [type |-> "HttpResponseError", args |-> message, status_code |-> Bound(403)]
Raises(outcome, message) ==
    IF outcome = "HttpResponseError" THEN HttpResponseError(message)
    ELSE Exc(outcome, message)
Raised(r) == r.raised.type # None
str(ex) == ex.args

\* The classes, of those the except clauses name, that an exception of a
\* class is an instance of. asyncio.CancelledError is no Exception.
Bases(type) ==
    CASE type \in {"FileNotFoundError", "PermissionError"} -> {type, "OSError", "Exception"}
      [] type \in {"HttpResponseError", "ServiceRequestError"} -> {type, "AzureError", "Exception"}
      [] type = "CancelledError" -> {type}
      [] OTHER -> {type, "Exception"}
isinstance(ex, cls) == cls \in Bases(ex.type)

\* What the world does while store_json runs: "ok" is success, anything else
\* the class of the exception raised. From the call to the first await: the
\* clock and the file system.
WriteEnvironments ==
    [ now : Timestamps,
      open : {"ok", "PermissionError"},
      write : {"ok", "OSError"} ]

\* From the hub's answer about the storage to the next await: the hub and
\* the storage service.
UploadEnvironments ==
    [ get_storage_info_for_blob : {"ok", "HttpResponseError"},
      upload_blob : {"ok", "FileNotFoundError", "HttpResponseError",
                     "ServiceRequestError", "ValueError"} ]

\* The hub's answer to the notification.
NotifyEnvironments == [ notify_blob_upload_status : {"ok", "ServiceRequestError"} ]

\* The tasks that call store_json, and the number of calls in one run of
\* the model.
Tasks == {"A", "B"}
MaxCalls == 3

\* Strings that take part in formatting and path operations are sequences
\* of their pieces.
FilePathPrefixes ==
    { << "telemetry_", "%s", ".json" >>,
      << "out", "/", "telemetry_", "%s" >>,
      << "telemetry.json" >> }

\* fmt % arg with a string argument: exactly one conversion is needed.
StrMod(fmt, arg) ==
    IF Cardinality({ k \in 1..Len(fmt) : fmt[k] = "%s" }) = 1
    THEN [raised |-> NoException,
          value |-> [k \in 1..Len(fmt) |-> IF fmt[k] = "%s" THEN arg ELSE fmt[k]]]
    ELSE [raised |-> Exc("TypeError", "string formatting"), value |-> << >>]

\* os.path.basename
basename(path) ==
    LET seps == { k \in 1..Len(path) : path[k] = "/" }
        start == IF seps = {} THEN 1
                 ELSE (CHOOSE k \in seps : \A j \in seps : j <= k) + 1
    IN  SubSeq(path, start, Len(path))

\* The file system: the files that exist, each with its content.
NoFiles == [p \in {} |-> << >>]
exists(files, path) == path \in DOMAIN files
Content(files, path) == IF exists(files, path) THEN files[path] ELSE << >>
WriteFile(files, path, content) ==
    [p \in DOMAIN files \cup {path} |-> IF p = path THEN content ELSE files[p]]
RemoveFile(files, path) == [p \in DOMAIN files \ {path} |-> files[p]]

\* device_client.get_storage_info_for_blob, when it succeeds.
StorageInfo(blob_name) ==
    [hostName |-> "host", containerName |-> "container", blobName |-> blob_name,
     sasToken |-> "?sas", correlationId |-> "corr1"]

\* store_blob's exception handlers: each returns (False, ex, blob_info), the
\* first having set ex.status_code; blob_info is read as a local.
store_blob_except(ex, blob_info) ==
    IF ~ isinstance(ex, "Exception")
    THEN [raised |-> ex, value |-> << >>]
    ELSE IF blob_info = Unbound
    THEN [raised |-> Exc("UnboundLocalError", "blob_info"), value |-> << >>]
    ELSE IF isinstance(ex, "FileNotFoundError")
         THEN [raised |-> NoException,
               value |-> << FALSE, [ex EXCEPT !.status_code = Bound(404)], blob_info[1] >>]
         ELSE [raised |-> NoException, value |-> << FALSE, ex, blob_info[1] >>]

store_blob(env, file_name, files) ==
    LET blob_name == basename(file_name)
    IN  IF env.get_storage_info_for_blob # "ok"
        THEN store_blob_except(Raises(env.get_storage_info_for_blob,
                                      "get_storage_info_for_blob"), Unbound)
        ELSE LET blob_info == StorageInfo(blob_name)
             IN  IF ~ exists(files, file_name)
                 THEN store_blob_except(Exc("FileNotFoundError", "open"), Bound(blob_info))
                 ELSE IF env.upload_blob # "ok"
                      THEN store_blob_except(Raises(env.upload_blob, "upload_blob"),
                                             Bound(blob_info))
                      ELSE [raised |-> NoException,
                            value |-> << TRUE,
                                         [blob |-> blob_name, data |-> files[file_name]],
                                         blob_info >>]

\* What store_json writes for the list: every line but the last is followed
\* by a newline.
RECURSIVE WriteFrom(_, _)
WriteFrom(json_list, count) ==
    IF count >= Len(json_list) THEN << >>
    ELSE (IF count < Len(json_list) - 1
          THEN << json_list[count + 1], "\n" >>
          ELSE << json_list[count + 1] >>) \o WriteFrom(json_list, count + 1)

FileLines(json_list) == WriteFrom(json_list, 0)

\* The state of one store_json call: the list and the files as the call
\* sees them, its locals, the await it is suspended at, and what the call
\* did: the notifications sent, the file as written, what store_blob gave
\* back, the exception its handler caught and the exception it raised.
Frame(json_list, files) ==
    [json_list |-> json_list, file_path |-> Unbound, files |-> files,
     awaiting |-> None, notified |-> << >>, written |-> Unbound, blob |-> Unbound,
     caught |-> NoException, raised |-> NoException]

\* except Exception as ex: clear the list, remove the file, raise ex. An
\* exception that is no Exception passes through.
store_json_except(f, ex) ==
    LET f1 == [f EXCEPT !.json_list = << >>, !.caught = ex]
    IN  IF ~ isinstance(ex, "Exception")
        THEN [f EXCEPT !.raised = ex]
        ELSE IF f1.file_path = Unbound
        THEN [f1 EXCEPT !.raised = Exc("UnboundLocalError", "file_path")]
        ELSE IF ~ exists(f1.files, f1.file_path[1])
             THEN [f1 EXCEPT !.raised = Exc("FileNotFoundError", "os.remove")]
             ELSE [f1 EXCEPT !.files = RemoveFile(@, f1.file_path[1]), !.raised = ex]

\* await device_client.notify_blob_upload_status(...): the call is made and
\* the coroutine waits for its end.
notify_blob_upload_status(f, correlation_id, is_success, status_code, status_description) ==
    [f EXCEPT !.notified =
                  Append(@, [correlation_id |-> correlation_id,
                             is_success |-> is_success,
                             status_code |-> status_code,
                             status_description |-> status_description]),
              !.awaiting = "notify_blob_upload_status"]

\* if success == True: ... up to the await.
store_json_success(f, result, storage_info) ==
    LET f1 == [f EXCEPT !.json_list = << >>]
        file_path == f.file_path[1]
    IN  IF ~ exists(f1.files, file_path)
        THEN store_json_except(f1, Exc("FileNotFoundError", "os.remove"))
        ELSE notify_blob_upload_status(
                 [f1 EXCEPT !.files = RemoveFile(@, file_path)],
                 storage_info.correlationId, TRUE, 200, << "OK: " >> \o file_path)

\* else: ... up to the await; the result is the exception object.
store_json_failure(f, result, storage_info) ==
    LET f1 == [f EXCEPT !.json_list = << >>]
        file_path == f.file_path[1]
    IN  IF ~ exists(f1.files, file_path)
        THEN store_json_except(f1, Exc("FileNotFoundError", "os.remove"))
        ELSE LET f2 == [f1 EXCEPT !.files = RemoveFile(@, file_path)]
             IN  IF result.status_code = Unbound
                 THEN store_json_except(f2, Exc("AttributeError", "status_code"))
                 ELSE notify_blob_upload_status(
                          f2, storage_info.correlationId, FALSE,
                          result.status_code[1], str(result))

\* store_json from its call to its return or to its first await, which is
\* store_blob's await of get_storage_info_for_blob.
store_json(env, json, json_list, files, file_path_prefix, chunk_size) ==
    IF Len(json_list) < chunk_size
    THEN Frame(Append(json_list, json), files)
    ELSE
        LET f0 == Frame(Append(json_list, json), files)
            formatted == StrMod(file_path_prefix, env.now)
            file_path == formatted.value
            f1 == [f0 EXCEPT !.file_path = Bound(file_path)]
            opened == [f1 EXCEPT !.files =
                          WriteFile(@, file_path, Content(@, file_path))]
            lines == Content(f1.files, file_path) \o FileLines(f1.json_list)
            f2 == [f1 EXCEPT !.files = WriteFile(@, file_path, lines),
                             !.written = Bound(lines),
                             !.awaiting = "get_storage_info_for_blob"]
        IN  IF Raised(formatted)
            THEN store_json_except(f0, formatted.raised)
            ELSE IF env.open # "ok"
            THEN store_json_except(f1, Raises(env.open, "open"))
            ELSE IF env.write # "ok"
            THEN store_json_except(opened, Raises(env.write, "write"))
            ELSE f2

\* store_json from the end of get_storage_info_for_blob: the rest of
\* store_blob, then the branch on its result, to the return or to the await
\* of notify_blob_upload_status.
store_json_after_storage_info(env, f) ==
    LET blob == store_blob(env, f.file_path[1], f.files)
        f1 == [f EXCEPT !.blob = Bound(blob), !.awaiting = None]
    IN  IF Raised(blob)
        THEN store_json_except(f1, blob.raised)
        ELSE IF blob.value[1] = TRUE
        THEN store_json_success(f1, blob.value[2], blob.value[3])
        ELSE store_json_failure(f1, blob.value[2], blob.value[3])

\* store_json from the end of notify_blob_upload_status to its return.
store_json_after_notify(env, f) ==
    LET f1 == [f EXCEPT !.awaiting = None]
    IN  IF env.notify_blob_upload_status # "ok"
        THEN store_json_except(f1, Raises(env.notify_blob_upload_status,
                                          "notify_blob_upload_status"))
        ELSE f1

\* The task is cancelled while the coroutine waits: CancelledError is raised
\* at the await, inside store_blob's try or inside store_json's.
cancel(f) ==
    LET ex == Exc("CancelledError", f.awaiting)
        f1 == [f EXCEPT !.awaiting = None]
        blob == store_blob_except(ex, Unbound)
    IN  IF f.awaiting = "get_storage_info_for_blob"
        THEN store_json_except([f1 EXCEPT !.blob = Bound(blob)], blob.raised)
        ELSE store_json_except(f1, ex)

\* A dict is the sequence of its items, in insertion order.
Item(k, v) == [key |-> k, val |-> v]
Get(dict, key) == (CHOOSE k \in 1..Len(dict) : dict[k].key = key)

ignore_keys == {"__t", "$version"}
Components == {"thermostat1", "thermostat2"}
PropertyValues == {"v1", "v2"}
Versions == {3, 4}

\* The values of one component: "__t" or not, and each property absent or
\* with a desired value.
ComponentValues ==
    { t \o a \o b :
        t \in { << >>, << Item("__t", "c") >> },
        a \in { << >> } \cup { << Item("targetTemperature", v) >> : v \in PropertyValues },
        b \in { << >> } \cup { << Item("mode", v) >> : v \in PropertyValues } }

\* Desired-properties patches: a component and "$version", in either order.
Patches ==
    UNION { { << Item(c, values), Item("$version", version) >>,
              << Item("$version", version), Item(c, values) >> } :
            c \in Components, values \in ComponentValues, version \in Versions }

\* The loop over values.items(): one dict, inner_dict, is filled in at each
\* property and stored under it; an item of values holds either what the
\* patch had (ref FALSE) or a reference to inner_dict (ref TRUE).
RECURSIVE AcknowledgeFrom(_, _, _, _)
AcknowledgeFrom(values, k, inner_dict, version) ==
    IF k > Len(values)
    THEN [values |-> values, inner_dict |-> inner_dict]
    ELSE IF values[k].key \in ignore_keys
         THEN AcknowledgeFrom(values, k + 1, inner_dict, version)
         ELSE AcknowledgeFrom(
                  [values EXCEPT ![k] = [key |-> values[k].key, ref |-> TRUE, val |-> None]],
                  k + 1,
                  [ac |-> 200, ad |-> "Successfully executed patch", av |-> version,
                   value |-> values[k].val],
                  version)

\* What is read in the dict afterwards: a reference shows inner_dict as it
\* is at the end.
Dereference(values, inner_dict) ==
    [k \in 1..Len(values) |->
        IF values[k].ref THEN Item(values[k].key, inner_dict) ELSE Item(values[k].key, values[k].val)]

\* The component's dict, values, after the loop. It is the patch's own dict.
values_after_loop(patch) ==
    LET values == patch[1].val
        version == patch[Get(patch, "$version")].val
        start == [k \in 1..Len(values) |->
                     [key |-> values[k].key, ref |-> FALSE, val |-> values[k].val]]
        done == AcknowledgeFrom(start, 1, << >>, version)
    IN  Dereference(done.values, done.inner_dict)

\* What the function returns. Without items (the first key is "$version")
\* values is returned as it is.
create_reported_properties_from_desired(patch) ==
    LET component_prefix == patch[1].key
    IN  IF component_prefix = "$version"
        THEN << Item(component_prefix, patch[1].val) >>
        ELSE << Item(component_prefix, values_after_loop(patch)) >>

\* The caller's patch after the call: values[prop_name] = inner_dict wrote
\* into it.
patch_after_call(patch) ==
    IF patch[1].key = "$version"
    THEN patch
    ELSE [patch EXCEPT ![1] = Item(patch[1].key, values_after_loop(patch))]

-----------------------------------------------------------------------------
VARIABLES
    stage,        \* the stage's links: next, previous, pipeline_root
    heap,         \* every operation constructed so far; its index is its identity
    submitted,    \* the operations handed to Pipeline.run_op, as they were then
    queue,        \* the pipeline thread's work queue (FIFO)
    active,       \* the stage steps executing now, each with its thread
    received,     \* the operations _run_op was entered with, in order
    downstream,   \* the operations the next stage's run_op received, as they were then
    pending,      \* the operations the next stage holds and has not completed
    callbackLog,  \* every invocation of an operation's callback, in order
    reported,     \* the fatal errors and defects reported
    offContext,   \* the threads that called the stage's _run_op directly
    emitted,      \* the events the next stage sent up, in order
    eventsUp,     \* the events the stage handed on, each with where it went
    json_list,    \* store_json: the caller's list of messages
    chunk_size,   \* store_json: the caller's chunk size
    file_path_prefix,  \* store_json: the caller's file name pattern
    files,        \* store_json: the files that exist, with their content
    tasks,        \* store_json: each task's call, if it is waiting at an await
    started,      \* store_json: the number of calls made
    last,         \* store_json: the last call that ended, with what it did
    patch,        \* the caller's desired-properties patch
    desired,      \* the patch as it was received
    properties    \* what create_reported_properties_from_desired returned for it

\* The operations' side of the pipeline.
opVars == << stage, heap, submitted, queue, active, received, downstream, pending,
             callbackLog, reported >>

\* Direct calls of the stage and events.
sideVars == << offContext, emitted, eventsUp >>

\* The state of the device sample's helpers.
storeVars == << json_list, chunk_size, file_path_prefix, files, tasks, started, last >>
propVars == << patch, desired, properties >>
helperVars == << storeVars, propVars >>

vars == << opVars, sideVars, helperVars >>

\* The part of the state the helpers read and write, as one value; exc is the
\* exception propagating out of the call, if any.
PipelineState ==
    [stage |-> stage, heap |-> heap, queue |-> queue, downstream |-> downstream,
     pending |-> pending, callbackLog |-> callbackLog, reported |-> reported,
     eventsUp |-> eventsUp, exc |-> None, blocked |-> FALSE]

Completed(s, id) == \E i \in 1..Len(s.callbackLog) : s.callbackLog[i].op = id

-----------------------------------------------------------------------------
\* operation_flow

\* complete(operation, error): invokes the callback once; a second completion is
\* reported as a defect and the callback is not invoked again. The callback
\* that delegate wired completes the original with the replacement's error.
RECURSIVE complete_op(_, _, _)
complete_op(s, id, error) ==
    IF Completed(s, id)
    THEN [s EXCEPT !.reported = Append(@, [error |-> "DoubleCompletion", op |-> id])]
    ELSE LET callback == s.heap[id].callback
             s1 == [s EXCEPT !.heap[id].error = error,
                             !.callbackLog = Append(@, [op |-> id, error |-> error])]
         IN  IF callback.fn = "new_op_complete"
             THEN complete_op(s1, callback.original_op, s1.heap[id].error)
             ELSE s1

\* The stage after UseSecurityClientStage receives the operation; it holds it
\* (r = "hold") or completes it at once with outcome r.
NextStage_run_op(s, id, r) ==
    LET s1 == [s EXCEPT !.downstream = Append(@, [id |-> id, op |-> s.heap[id]])]
    IN  IF r = "hold"
        THEN [s1 EXCEPT !.pending = @ \cup {id}]
        ELSE complete_op(s1, id, r)

\* pass_to_next(stage, operation): forwards the operation verbatim to
\* stage.next.run(operation); fails fatally if stage.next is absent.
pass_op_to_next_stage(s, stg, id, r) ==
    IF stg.next = None
    THEN [s EXCEPT !.exc = "PipelineConfigurationError",
                   !.reported = Append(@, [error |-> "PipelineConfigurationError",
                                            op |-> id])]
    ELSE NextStage_run_op(s, id, r)

\* delegate(stage, original_operation, replacement_operation): wires the
\* replacement's callback to complete the original, then submits it to
\* stage.next.run.
delegate_to_different_op(s, stg, original_op, new_op, r) ==
    LET wired == [new_op EXCEPT !.callback =
                     [fn |-> "new_op_complete", caller |-> None,
                      original_op |-> original_op]]
        s1 == [s EXCEPT !.heap = Append(@, wired)]
    IN  pass_op_to_next_stage(s1, stg, Len(s1.heap), r)

\* Pipeline.run_op called from inside a stage step with an operation whose
\* outcome completes original_op: the operation is queued for the head stage
\* like any other submission.
Pipeline_run_op_from_stage(s, original_op, new_op) ==
    LET wired == [new_op EXCEPT !.callback =
                     [fn |-> "new_op_complete", caller |-> None,
                      original_op |-> original_op]]
    IN  [s EXCEPT !.heap = Append(@, wired),
                  !.queue = Append(@, [fn |-> "run_op", op |-> Len(s.heap) + 1,
                                       error |-> None])]

\* An assignment self.name = value made by a stage body.
SetAttr(stg, name, value) ==
    [f \in DOMAIN stg \cup {name} |-> IF f = name THEN value ELSE stg[f]]

\* A stage body waiting, on the thread that runs it, until operation id has
\* been completed: it returns at once if id is completed already and
\* otherwise keeps its thread.
wait_for_completion(s, id) ==
    IF Completed(s, id) THEN s ELSE [s EXCEPT !.blocked = TRUE]

-----------------------------------------------------------------------------
\* PipelineStage.run_op: runs the stage's _run_op; an exception raised while
\* the stage processes the operation completes the operation with it.

Dispatch(s, stg, id, c, r) ==
    CASE c.call = "delegate_to_different_op" ->
            delegate_to_different_op(s, stg, id, c.new_op, r)
      [] c.call = "pass_op_to_next_stage" ->
            pass_op_to_next_stage(s, stg, id, r)
      [] c.call = "complete_op" ->
            complete_op(s, id, c.error)
      [] c.call = "Pipeline.run_op" ->
            Pipeline_run_op_from_stage(s, id, c.new_op)
      [] c.call = "setattr" ->
            [s EXCEPT !.stage = SetAttr(s.stage, c.name, c.value)]
      [] c.call = "wait_for_completion" ->
            wait_for_completion(s, id)
      [] c.call = "raise" ->
            [s EXCEPT !.exc = c.error]

RECURSIVE RunCalls(_, _, _, _, _)
RunCalls(s, stg, id, calls, r) ==
    IF calls = << >> \/ s.exc # None
    THEN s
    ELSE RunCalls(Dispatch(s, stg, id, Head(calls), r), stg, id, Tail(calls), r)

PipelineStage_run_op(s, stg, id, r) ==
    LET s1 == RunCalls(s, stg, id, _run_op(s.heap[id]), r)
    IN  IF s1.exc # None
        THEN complete_op([s1 EXCEPT !.exc = None], id, s1.exc)
        ELSE s1

-----------------------------------------------------------------------------
\* PipelineStage.handle_event: an event goes to the previous stage, or to the
\* pipeline's event sink when the stage is the head.

pass_event_to_previous_stage(s, stg, event) ==
    [s EXCEPT !.eventsUp =
        Append(@, [to |-> IF stg.previous = None THEN stg.pipeline_root
                          ELSE stg.previous,
                   event |-> event])]

\* A stage constructing an operation of its own and sending it to the next
\* stage, which holds it.
run_new_op(s, stg, new_op) ==
    LET s1 == [s EXCEPT !.heap = Append(@, new_op)]
    IN  pass_op_to_next_stage(s1, stg, Len(s1.heap), "hold")

DispatchEvent(s, stg, event, c) ==
    CASE c.call = "pass_event_to_previous_stage" ->
            pass_event_to_previous_stage(s, stg, event)
      [] c.call = "run_new_op" ->
            run_new_op(s, stg, c.new_op)

RECURSIVE RunEventCalls(_, _, _, _)
RunEventCalls(s, stg, event, calls) ==
    IF calls = << >>
    THEN s
    ELSE RunEventCalls(DispatchEvent(s, stg, event, Head(calls)), stg, event, Tail(calls))

PipelineStage_handle_event(s, stg, event) ==
    RunEventCalls(s, stg, event, handle_event(event))

\* The thread-affinity guard of a decorated stage method: the call is
\* allowed on the pipeline thread only.
runs_on_pipeline_thread(thread) == thread = "pipeline"

-----------------------------------------------------------------------------
\* Actions

Install(s) ==
    /\ stage' = s.stage
    /\ heap' = s.heap
    /\ queue' = s.queue
    /\ downstream' = s.downstream
    /\ pending' = s.pending
    /\ callbackLog' = s.callbackLog
    /\ reported' = s.reported

\* A Pipeline.run_op that runs the head stage on the caller's own thread.
Pipeline_run_op_on_caller_thread(c, op) ==
    /\ Len(submitted) < MaxOps
    /\ heap' = Append(heap, op)
    /\ submitted' = Append(submitted, [id |-> Len(heap) + 1, op |-> op])
    /\ active' = active \cup {[thread |-> c,
                              task |-> [fn |-> "run_op", op |-> Len(heap) + 1,
                                        error |-> None]]}
    /\ UNCHANGED << stage, queue, received, downstream, pending, callbackLog, reported >>

\* Pipeline.run_op, called on caller thread c: the call is marshalled onto
\* the pipeline thread.
\* The calls made into the pipeline so far: operations submitted, direct
\* calls of the stage, events sent up.
Calls == Len(submitted) + Len(offContext) + Len(emitted)

Pipeline_run_op(c, op) ==
    /\ Calls < MaxOps
    /\ heap' = Append(heap, op)
    /\ submitted' = Append(submitted, [id |-> Len(heap) + 1, op |-> op])
    /\ queue' = Append(queue, [fn |-> "run_op", op |-> Len(heap) + 1, error |-> None])
    /\ UNCHANGED << stage, active, received, downstream, pending, callbackLog, reported >>

Submit == \E c \in Callers : \E op \in SubmittableOps(c) : Pipeline_run_op(c, op)

\* The pipeline thread, idle, takes the next piece of work from its queue.
PipelineStart ==
    /\ queue # << >>
    /\ \A a \in active : a.thread # "pipeline"
    /\ active' = active \cup {[thread |-> "pipeline", task |-> Head(queue)]}
    /\ queue' = Tail(queue)
    /\ UNCHANGED << stage, heap, submitted, received, downstream, pending,
                    callbackLog, reported >>

\* A running run_op step: the head stage's run_op, hence _run_op, to its end.
StageRunOp ==
    \E a \in active : \E r \in {"hold"} \cup Outcomes :
        /\ a.task.fn = "run_op"
        /\ received' = Append(received, a.task.op)
        /\ LET s1 == PipelineStage_run_op(PipelineState, stage, a.task.op, r)
           IN  /\ Install(s1)
               /\ active' = IF s1.blocked
                            THEN (active \ {a}) \cup
                                 {[thread |-> a.thread,
                                   task |-> [a.task EXCEPT !.fn = "blocked"]]}
                            ELSE active \ {a}
        /\ UNCHANGED submitted

\* A running completion step: the next stage's completion of an operation,
\* delivered on the pipeline thread, invokes the operation's callback.
StageCompleteOp ==
    \E a \in active :
        /\ a.task.fn = "complete_op"
        /\ active' = active \ {a}
        /\ Install(complete_op(PipelineState, a.task.op, a.task.error))
        /\ UNCHANGED << submitted, received >>

\* The next stage completes an operation it holds; the completion is
\* marshalled onto the pipeline thread.
NextStageComplete ==
    \E id \in pending : \E e \in Outcomes :
        /\ pending' = pending \ {id}
        /\ queue' = Append(queue, [fn |-> "complete_op", op |-> id, error |-> e])
        /\ UNCHANGED << stage, heap, submitted, active, received, downstream,
                        callbackLog, reported >>

\* Thread c calls the stage's _run_op directly, not through Pipeline.run_op.
\* The guard of a decorated _run_op reports the call and the body does not
\* run; an undecorated _run_op runs on the calling thread.
Stage_run_op_direct(c, op) ==
    /\ Calls < MaxOps
    /\ offContext' = Append(offContext, c)
    /\ IF "runs_on_pipeline_thread" \in _run_op_decorators
          /\ ~ runs_on_pipeline_thread(c)
       THEN /\ reported' = Append(reported, [error |-> "NotOnPipelineThread", op |-> 0])
            /\ UNCHANGED << heap, active >>
       ELSE /\ heap' = Append(heap, op)
            /\ active' = active \cup {[thread |-> c,
                                      task |-> [fn |-> "run_op", op |-> Len(heap) + 1,
                                                error |-> None]]}
            /\ UNCHANGED reported
    /\ UNCHANGED << stage, submitted, queue, received, downstream, pending,
                    callbackLog, emitted, eventsUp >>

DirectCall == \E c \in Callers : \E op \in SubmittableOps(c) : Stage_run_op_direct(c, op)

\* The next stage sends an event up; the call is marshalled onto the pipeline
\* thread.
NextStageEvent ==
    \E event \in Events :
        /\ stage.next # None
        /\ Calls < MaxOps
        /\ emitted' = Append(emitted, event)
        /\ queue' = Append(queue, [fn |-> "handle_event", op |-> 0, error |-> None,
                                   event |-> event])
        /\ UNCHANGED << stage, heap, submitted, active, received, downstream, pending,
                        callbackLog, reported, offContext, eventsUp >>

\* A running event step: the stage's handle_event, to its end.
StageHandleEvent ==
    \E a \in active :
        /\ a.task.fn = "handle_event"
        /\ active' = active \ {a}
        /\ LET s1 == PipelineStage_handle_event(PipelineState, stage, a.task.event)
           IN  Install(s1) /\ eventsUp' = s1.eventsUp
        /\ UNCHANGED << submitted, received, offContext, emitted >>

\* One caller submitting, in the runs with direct calls and with events.
SubmitByOne == \E op \in SubmittableOps("c1") : Pipeline_run_op("c1", op)

\* No direct call and no event has happened.
SideIdle == offContext = << >> /\ emitted = << >> /\ eventsUp = << >>

\* No call of store_json has ended.
NoCall == [json |-> None, flush |-> FALSE, before |-> << >>,
           result |-> Frame(<< >>, NoFiles)]

\* A task that is not in a call of store_json.
IdleTask == [json |-> None, before |-> << >>, frame |-> Frame(<< >>, NoFiles)]

\* The sample's helpers have not been used.
StoreJsonIdle ==
    /\ json_list = << >>
    /\ chunk_size = 0
    /\ file_path_prefix = << >>
    /\ files = NoFiles
    /\ tasks = [t \in Tasks |-> IdleTask]
    /\ started = 0
    /\ last = NoCall

PropertiesIdle == patch = << >> /\ desired = << >> /\ properties = << >>

HelpersIdle == StoreJsonIdle /\ PropertiesIdle

Init ==
    /\ SideIdle
    /\ HelpersIdle
    /\ stage \in { [name |-> "UseSecurityClientStage", next |-> n, previous |-> None,
                    pipeline_root |-> "PipelineRoot"] : n \in {"NextStage", None} }
    /\ heap = << >>
    /\ submitted = << >>
    /\ queue = << >>
    /\ active = {}
    /\ received = << >>
    /\ downstream = << >>
    /\ pending = {}
    /\ callbackLog = << >>
    /\ reported = << >>

Next ==
    \/ Submit /\ UNCHANGED << sideVars, helperVars >>
    \/ PipelineStart /\ UNCHANGED << sideVars, helperVars >>
    \/ StageRunOp /\ UNCHANGED << sideVars, helperVars >>
    \/ StageCompleteOp /\ UNCHANGED << sideVars, helperVars >>
    \/ NextStageComplete /\ UNCHANGED << sideVars, helperVars >>

Spec == Init /\ [][Next]_vars

\* The pipeline with callers that also call the stage directly.
NextOffContext ==
    \/ SubmitByOne /\ UNCHANGED << sideVars, helperVars >>
    \/ PipelineStart /\ UNCHANGED << sideVars, helperVars >>
    \/ StageRunOp /\ UNCHANGED << sideVars, helperVars >>
    \/ StageCompleteOp /\ UNCHANGED << sideVars, helperVars >>
    \/ NextStageComplete /\ UNCHANGED << sideVars, helperVars >>
    \/ DirectCall /\ UNCHANGED helperVars

SpecOffContext == Init /\ [][NextOffContext]_vars

\* The pipeline with a next stage that sends events up, the stage being the
\* head of the chain or having a previous stage.
InitEvents ==
    /\ SideIdle
    /\ HelpersIdle
    /\ stage \in { [name |-> "UseSecurityClientStage", next |-> "NextStage",
                    previous |-> p, pipeline_root |-> "PipelineRoot"] :
                    p \in {"PreviousStage", None} }
    /\ heap = << >>
    /\ submitted = << >>
    /\ queue = << >>
    /\ active = {}
    /\ received = << >>
    /\ downstream = << >>
    /\ pending = {}
    /\ callbackLog = << >>
    /\ reported = << >>

NextEvents ==
    \/ SubmitByOne /\ UNCHANGED << sideVars, helperVars >>
    \/ PipelineStart /\ UNCHANGED << sideVars, helperVars >>
    \/ StageRunOp /\ UNCHANGED << sideVars, helperVars >>
    \/ StageCompleteOp /\ UNCHANGED << sideVars, helperVars >>
    \/ NextStageComplete /\ UNCHANGED << sideVars, helperVars >>
    \/ NextStageEvent /\ UNCHANGED helperVars
    \/ StageHandleEvent /\ UNCHANGED helperVars

SpecEvents == InitEvents /\ [][NextEvents]_vars

-----------------------------------------------------------------------------
\* What the properties below speak of.

CredentialKinds ==
    {"SetSymmetricKeySecurityClientOperation", "SetX509SecurityClientOperation"}

SubmittedIds == { submitted[i].id : i \in 1..Len(submitted) }
ReceivedIds == { received[i] : i \in 1..Len(received) }

\* The invocations of the callback of operation id.
Callbacks(id) == { i \in 1..Len(callbackLog) : callbackLog[i].op = id }
CallbackCount(id) == Cardinality(Callbacks(id))
CompletedWith(id, e) == \E i \in Callbacks(id) : callbackLog[i].error = e

\* The operations the stage constructed for operation id.
Synthesized(id) ==
    { j \in 1..Len(heap) : /\ heap[j].callback.fn = "new_op_complete"
                           /\ heap[j].callback.original_op = id }

\* The deliveries of operation id to the next stage.
Deliveries(id) == { i \in 1..Len(downstream) : downstream[i].id = id }

\* Nothing is queued or running on the pipeline thread and the next stage
\* holds nothing.
Quiescent == queue = << >> /\ active = {} /\ pending = {}

DoubleCompletions == { i \in 1..Len(reported) : reported[i].error = "DoubleCompletion" }

-----------------------------------------------------------------------------
\* C1: the callback of a submitted operation is never invoked more than once
\* (nor is a second completion of it ever attempted), and once the next stage
\* has completed every operation it received and every step has run, the
\* callback of every submitted operation has been invoked exactly once.
C1_CompletedExactlyOnce ==
    /\ \A id \in SubmittedIds : CallbackCount(id) <= 1
    /\ DoubleCompletions = {}
    /\ Quiescent => \A id \in SubmittedIds : CallbackCount(id) = 1

\* Two operations, one a credential operation completed through its
\* replacement and one another kind, are completed and nothing is outstanding.
C1_Witness ==
    /\ Quiescent
    /\ stage.next # None
    /\ \E a, b \in SubmittedIds :
        /\ heap[a].kind \in CredentialKinds
        /\ \E j \in Synthesized(a) : CallbackCount(j) = 1
        /\ heap[b].kind \notin CredentialKinds
        /\ CallbackCount(a) = 1 /\ CallbackCount(b) = 1

-----------------------------------------------------------------------------
\* The connection arguments an operation carries.
ConnectionArgs(o) ==
    << o.kind, o.provisioning_host, o.registration_id, o.id_scope, o.client_cert,
       o.sas_token >>

\* Operation j was constructed with args, reached the next stage once and
\* reached it with args.
SynthesizedCarrying(j, args) ==
    /\ ConnectionArgs(heap[j]) = args
    /\ Cardinality(Deliveries(j)) = 1
    /\ \A k \in Deliveries(j) : ConnectionArgs(downstream[k].op) = args

\* C2: for a SetSymmetricKeySecurityClientOperation whose security client has
\* host H, registration id I, id scope S and current SAS token T, the stage
\* constructs exactly one SetProvisioningClientConnectionArgsOperation, carrying
\* (H, I, S, T) and no certificate, submits it to the next stage (and not the
\* original), and once that operation is completed with no error the original
\* is completed with no error. Before the stage ran, nothing was constructed.
C2_SymmetricKeyDelegation ==
    \A i \in 1..Len(submitted) :
        LET id == submitted[i].id
            o == submitted[i].op
        IN  (o.kind = "SetSymmetricKeySecurityClientOperation"
             /\ get_current_sas_token(o.security_client) \notin Exceptions
             /\ stage.next # None)
            => IF id \in ReceivedIds
               THEN /\ Cardinality(Synthesized(id)) = 1
                    /\ Deliveries(id) = {}
                    /\ \A j \in Synthesized(id) :
                        /\ SynthesizedCarrying(j,
                              << "SetProvisioningClientConnectionArgsOperation",
                                 o.security_client.provisioning_host,
                                 o.security_client.registration_id,
                                 o.security_client.id_scope,
                                 None,
                                 o.security_client.sas_token >>)
                        /\ CompletedWith(j, None)
                              => CompletedWith(id, None) /\ CallbackCount(id) = 1
               ELSE Synthesized(id) = {}

\* A symmetric-key operation whose replacement the next stage held and then
\* completed with no error has been completed with no error.
C2_Witness ==
    \E id \in SubmittedIds :
        /\ heap[id].kind = "SetSymmetricKeySecurityClientOperation"
        /\ \E j \in Synthesized(id) :
            /\ heap[j].sas_token = "t1"
            /\ CompletedWith(j, None)
            /\ \E k \in 1..Len(received) : received[k] # id /\ j < received[k]
        /\ CompletedWith(id, None)

\* C3: for a SetX509SecurityClientOperation whose security client has host H,
\* registration id I, id scope S and certificate C, the stage constructs exactly
\* one SetProvisioningClientConnectionArgsOperation, carrying (H, I, S, C) and
\* no SAS token, submits it to the next stage (and not the original), and once
\* that operation is completed with no error the original is completed with
\* no error. Before the stage ran, nothing was constructed.
C3_X509Delegation ==
    \A i \in 1..Len(submitted) :
        LET id == submitted[i].id
            o == submitted[i].op
        IN  (o.kind = "SetX509SecurityClientOperation"
             /\ get_x509_certificate(o.security_client) \notin Exceptions
             /\ stage.next # None)
            => IF id \in ReceivedIds
               THEN /\ Cardinality(Synthesized(id)) = 1
                    /\ Deliveries(id) = {}
                    /\ \A j \in Synthesized(id) :
                        /\ SynthesizedCarrying(j,
                              << "SetProvisioningClientConnectionArgsOperation",
                                 o.security_client.provisioning_host,
                                 o.security_client.registration_id,
                                 o.security_client.id_scope,
                                 o.security_client.x509_certificate,
                                 None >>)
                        /\ CompletedWith(j, None)
                              => CompletedWith(id, None) /\ CallbackCount(id) = 1
               ELSE Synthesized(id) = {}

\* An X509 operation whose replacement was completed with no error has been
\* completed with no error.
C3_Witness ==
    \E id \in SubmittedIds :
        /\ heap[id].kind = "SetX509SecurityClientOperation"
        /\ \E j \in Synthesized(id) :
            /\ heap[j].client_cert = "c1"
            /\ CompletedWith(j, None)
        /\ CompletedWith(id, None)
        /\ Quiescent

-----------------------------------------------------------------------------
\* The next stage's completion of operation id is still to come or still to
\* be delivered.
AwaitingCompletion(id) ==
    \/ id \in pending
    \/ \E k \in 1..Len(queue) : queue[k].fn = "complete_op" /\ queue[k].op = id
    \/ \E a \in active : a.task.fn = "complete_op" /\ a.task.op = id

\* C4: when the operation the stage constructed for a credential operation is
\* completed with error E, the original is completed with E (and with nothing
\* else), and the stage has issued nothing further for it: that operation is
\* the only one constructed for the original, it reached the next stage once,
\* and the original itself never did.
C4_DelegatedErrorPropagates ==
    \A id \in SubmittedIds : \A j \in Synthesized(id) : \A e \in Errors :
        (heap[id].kind \in CredentialKinds /\ CompletedWith(j, e))
        => /\ CompletedWith(id, e)
           /\ CallbackCount(id) = 1
           /\ Synthesized(id) = {j}
           /\ Cardinality(Deliveries(j)) = 1
           /\ Deliveries(id) = {}

\* A credential operation was completed with E1 because its replacement was,
\* and the stage has since processed another operation.
C4_Witness ==
    \E id \in SubmittedIds : \E j \in Synthesized(id) :
        /\ heap[id].kind \in CredentialKinds
        /\ CompletedWith(j, "E1")
        /\ CompletedWith(id, "E1")
        /\ \E k \in 1..Len(received) : received[k] > j
        /\ Quiescent

\* C5: an operation that is neither a SetSymmetricKeySecurityClientOperation
\* nor a SetX509SecurityClientOperation reaches the next stage exactly once, as
\* the operation that was submitted with every field and its callback as they
\* were; the stage constructs nothing for it and does not complete it (while
\* the next stage's completion is outstanding its callback has not run).
C5_OtherOperationsPassThrough ==
    \A i \in 1..Len(submitted) :
        LET id == submitted[i].id
            o == submitted[i].op
        IN  (o.kind \notin CredentialKinds /\ stage.next # None)
            => /\ Synthesized(id) = {}
               /\ AwaitingCompletion(id) => CallbackCount(id) = 0
               /\ IF id \in ReceivedIds
                  THEN /\ Cardinality(Deliveries(id)) = 1
                       /\ \A k \in Deliveries(id) : downstream[k].op = o
                  ELSE Deliveries(id) = {} /\ CallbackCount(id) = 0

\* The next stage holds an operation of another kind that the stage passed
\* down, while a second operation has been submitted.
C5_Witness ==
    \E i \in 1..Len(submitted) :
        /\ submitted[i].op.kind \notin CredentialKinds
        /\ submitted[i].id \in pending
        /\ \E k \in Deliveries(submitted[i].id) : downstream[k].op = submitted[i].op
        /\ Len(submitted) > i

\* C6: when the getter of a credential operation's security client raises X,
\* the original is completed with X exactly once as soon as the stage has
\* processed it; nothing is constructed for it, nothing of it reaches the next
\* stage, and it is not left with the next stage.
C6_ExceptionCompletesOriginal ==
    \A i \in 1..Len(submitted) :
        LET id == submitted[i].id
            o == submitted[i].op
            X == IF o.kind = "SetSymmetricKeySecurityClientOperation"
                 THEN get_current_sas_token(o.security_client)
                 ELSE get_x509_certificate(o.security_client)
        IN  (o.kind \in CredentialKinds /\ X \in Exceptions)
            => /\ Synthesized(id) = {}
               /\ Deliveries(id) = {}
               /\ id \notin pending
               /\ IF id \in ReceivedIds
                  THEN CallbackCount(id) = 1 /\ CompletedWith(id, X)
                  ELSE CallbackCount(id) = 0

\* A symmetric-key operation was completed with what get_current_sas_token()
\* raised and an X509 operation with what get_x509_certificate() raised.
C6_Witness ==
    \E a, b \in SubmittedIds :
        /\ heap[a].kind = "SetSymmetricKeySecurityClientOperation"
        /\ heap[b].kind = "SetX509SecurityClientOperation"
        /\ CompletedWith(a, "TokenError")
        /\ CompletedWith(b, "CertError")
        /\ downstream = << >>

\* C7: in a pipeline where the stage has no next stage, every operation of a
\* kind the stage does not handle that the stage has processed has had a fatal
\* pipeline-configuration error reported for it; it is never dropped silently.
C7_NoNextStageIsFatal ==
    stage.next = None
    => \A id \in SubmittedIds :
          (heap[id].kind \notin CredentialKinds /\ id \in ReceivedIds)
          => /\ \E k \in 1..Len(reported) :
                    reported[k] = [error |-> "PipelineConfigurationError", op |-> id]
             /\ ~ (reported = << >> /\ CallbackCount(id) = 0)

\* The stage has no next stage and has processed an operation of another kind.
C7_Witness ==
    /\ stage.next = None
    /\ \E id \in SubmittedIds :
        /\ heap[id].kind \notin CredentialKinds
        /\ id \in ReceivedIds
        /\ CompletedWith(id, "PipelineConfigurationError")

-----------------------------------------------------------------------------
\* How often the stage's _run_op was entered with operation id.
ReceiveCount(id) == Cardinality({ k \in 1..Len(received) : received[k] = id })

\* C8: operations submitted from several caller threads are all processed by
\* the stage, each once, and at no time are two stage steps (a _run_op or a
\* delegated operation's completion callback) executing: at most one step is
\* active and it is on the pipeline thread.
C8_StepsAreSerialized ==
    /\ Cardinality(active) <= 1
    /\ \A a \in active : a.thread = "pipeline"
    /\ \A id \in SubmittedIds : ReceiveCount(id) <= 1
    /\ Quiescent => \A id \in SubmittedIds : ReceiveCount(id) = 1

\* Two callers have each submitted an operation; the completion callback of a
\* delegated operation is running on the pipeline thread while the other
\* caller's run_op waits in the queue.
C8_Witness ==
    /\ Len(submitted) = 2
    /\ submitted[1].op.callback.caller # submitted[2].op.callback.caller
    /\ \E a \in active :
        /\ a.task.fn = "complete_op"
        /\ a.task.op \in Synthesized(submitted[1].id)
    /\ \E k \in 1..Len(queue) : queue[k].fn = "run_op" /\ queue[k].op = submitted[2].id

-----------------------------------------------------------------------------
\* The submitted operation on whose behalf operation id exists.
Origin(id) ==
    IF heap[id].callback.fn = "new_op_complete" THEN heap[id].callback.original_op ELSE id

SubmitIndex(id) == CHOOSE i \in 1..Len(submitted) : submitted[i].id = id
ReceiveIndex(id) == CHOOSE k \in 1..Len(received) : received[k] = id

\* C9: the stage processes the operations of one caller in the order the
\* caller submitted them, and what it sends to the next stage arrives in the
\* order in which it received the operations: if the next stage got something
\* for A before something for B, the stage received A before B.
C9_OrderPreserved ==
    /\ \A i, j \in 1..Len(received) :
          (/\ i < j
           /\ received[i] \in SubmittedIds /\ received[j] \in SubmittedIds
           /\ heap[received[i]].callback.caller = heap[received[j]].callback.caller)
          => SubmitIndex(received[i]) < SubmitIndex(received[j])
    /\ \A i, j \in 1..Len(downstream) :
          i < j => /\ Origin(downstream[i].id) \in ReceivedIds
                   /\ Origin(downstream[j].id) \in ReceivedIds
                   /\ ReceiveIndex(Origin(downstream[i].id))
                        < ReceiveIndex(Origin(downstream[j].id))

\* One caller submitted a credential operation and then an operation of
\* another kind; the next stage has the replacement of the first, then the
\* second.
C9_Witness ==
    /\ Len(submitted) = 2
    /\ submitted[1].op.callback.caller = submitted[2].op.callback.caller
    /\ submitted[1].op.kind \in CredentialKinds
    /\ submitted[2].op.kind \notin CredentialKinds
    /\ Len(downstream) = 2
    /\ downstream[1].id \in Synthesized(submitted[1].id)
    /\ downstream[2].id = submitted[2].id

-----------------------------------------------------------------------------
\* C10 (as the class docstring states it): a credential operation completed
\* with no error has had two operations passed down for it, first a
\* SetProvisioningClientConnectionArgsOperation and after it the operation
\* carrying the credential: SetSasToken for the symmetric-key operation,
\* SetClientAuthenticationCertificate for the X509 operation.
C10_TwoOperationsPassedDown ==
    \A id \in SubmittedIds :
        (heap[id].kind \in CredentialKinds /\ stage.next # None /\ CompletedWith(id, None))
        => \E k1, k2 \in 1..Len(downstream) :
              /\ k1 < k2
              /\ Origin(downstream[k1].id) = id
              /\ downstream[k1].op.kind = "SetProvisioningClientConnectionArgsOperation"
              /\ Origin(downstream[k2].id) = id
              /\ downstream[k2].op.kind =
                    IF heap[id].kind = "SetSymmetricKeySecurityClientOperation"
                    THEN "SetSasToken"
                    ELSE "SetClientAuthenticationCertificate"

-----------------------------------------------------------------------------
\* What the stage did with operation id, apart from identities: the connection
\* arguments of what it constructed, how often id itself went down, and id's
\* completions.
Treatment(id) ==
    [synthesized |-> { ConnectionArgs(heap[j]) : j \in Synthesized(id) },
     deliveries |-> Cardinality(Deliveries(id)),
     sent |-> Cardinality({ k \in 1..Len(downstream) : Origin(downstream[k].id) = id })]

\* C11: no step changes the stage: its links (next, previous, pipeline_root)
\* and every other field stay as they were constructed; and two operations
\* equal in every field are treated alike by the stage, whatever was
\* processed between them and whatever is outstanding.
C11_StageKeepsNoState ==
    /\ [][stage' = stage]_vars
    /\ [](\A i, j \in 1..Len(submitted) :
            (/\ i < j
             /\ submitted[i].op = submitted[j].op
             /\ submitted[i].id \in ReceivedIds
             /\ submitted[j].id \in ReceivedIds)
            => Treatment(submitted[i].id) = Treatment(submitted[j].id))

\* The same symmetric-key operation was submitted twice; the stage processed
\* the second while the replacement of the first was outstanding.
C11_Witness ==
    /\ Len(submitted) = 2
    /\ submitted[1].op = submitted[2].op
    /\ submitted[1].op.kind = "SetSymmetricKeySecurityClientOperation"
    /\ Len(received) = 2
    /\ \E j \in Synthesized(submitted[1].id) : j \in pending
    /\ Synthesized(submitted[2].id) # {}

\* C12: no step waits for a delegated operation. The pipeline thread is
\* never held by a step that waits for a completion: a step that is running
\* is a run_op or a completion step, which runs to its end whatever the next
\* stage still holds, and whenever no step is running and work is queued the
\* pipeline thread can take it.
C12_NeverBlocks ==
    /\ \A a \in active : a.task.fn \in {"run_op", "complete_op"}
    /\ (active = {} /\ queue # << >>) => ENABLED PipelineStart

\* While the replacement of a credential operation is still with the next
\* stage, an operation submitted later has been processed and completed.
C12_Witness ==
    \E a, b \in SubmittedIds :
        /\ heap[a].kind \in CredentialKinds
        /\ \E j \in Synthesized(a) : j \in pending
        /\ CallbackCount(a) = 0
        /\ a < b
        /\ b \in ReceivedIds
        /\ CallbackCount(b) = 1
        /\ active = {}

\* C13: _run_op is entered only with operations that callers submitted, once
\* for each, and never with an operation the stage constructed: every
\* constructed operation goes to the next stage (once), and the stage
\* constructs at most one operation per submitted operation.
C13_NoReentry ==
    /\ \A k \in 1..Len(received) :
          /\ received[k] \in SubmittedIds
          /\ heap[received[k]].callback.fn = "caller_callback"
    /\ \A id \in SubmittedIds : ReceiveCount(id) <= 1
    /\ \A j \in 1..Len(heap) :
          (heap[j].callback.fn = "new_op_complete" /\ stage.next # None)
          => Cardinality(Deliveries(j)) = 1
    /\ Len(heap) <= 2 * Len(submitted)

\* Both credential kinds were processed; each replacement reached the next
\* stage and was completed, and nothing is left to do.
C13_Witness ==
    /\ Quiescent
    /\ Len(received) = 2
    /\ heap[received[1]].kind = "SetSymmetricKeySecurityClientOperation"
    /\ heap[received[2]].kind = "SetX509SecurityClientOperation"
    /\ Len(downstream) = 2
    /\ \A k \in 1..2 : heap[downstream[k].id].callback.fn = "new_op_complete"

-----------------------------------------------------------------------------
OffContextReports ==
    { k \in 1..Len(reported) : reported[k].error = "NotOnPipelineThread" }

\* C14: a call of the stage's _run_op on a thread that is not the pipeline
\* thread is reported as a failure, one report for each such call, and the
\* operation is not processed: no step ever runs on a caller's thread, _run_op
\* is entered with submitted operations only, and nothing exists or goes
\* down on behalf of the operation of a direct call.
C14_OffContextCallIsReported ==
    /\ Cardinality(OffContextReports) = Len(offContext)
    /\ \A a \in active : a.thread = "pipeline"
    /\ \A k \in 1..Len(received) : received[k] \in SubmittedIds
    /\ \A j \in 1..Len(heap) : Origin(j) \in SubmittedIds
    /\ \A k \in 1..Len(downstream) : Origin(downstream[k].id) \in SubmittedIds

\* A caller called _run_op directly while a submitted operation was being
\* processed on the pipeline thread; the call was reported.
C14_Witness ==
    /\ Len(offContext) = 1
    /\ OffContextReports # {}
    /\ \E a \in active : a.thread = "pipeline" /\ a.task.fn = "run_op"

-----------------------------------------------------------------------------
\* Where the stage sends events.
EventTarget == IF stage.previous = None THEN stage.pipeline_root ELSE stage.previous

HandlingEvent(a) == a.task.fn = "handle_event"

EventsInFlight ==
    \/ \E k \in 1..Len(queue) : queue[k].fn = "handle_event"
    \/ \E a \in active : HandlingEvent(a)

\* C15: the events the stage has handed on are the events the next stage sent
\* up, in order and unchanged, each given to the previous stage (to the
\* pipeline's event sink when the stage is the head); once no event is queued
\* or being handled every event has been handed on; and the step that handles
\* an event constructs no operation, sends nothing down and completes nothing.
C15_EventsPassUp ==
    /\ [](/\ Len(eventsUp) <= Len(emitted)
          /\ \A k \in 1..Len(eventsUp) :
                eventsUp[k] = [to |-> EventTarget, event |-> emitted[k]]
          /\ ~ EventsInFlight => Len(eventsUp) = Len(emitted))
    /\ [][(\E a \in active : HandlingEvent(a) /\ a \notin active')
          => /\ heap' = heap
             /\ downstream' = downstream
             /\ pending' = pending
             /\ callbackLog' = callbackLog]_vars

\* An event reached the previous stage while the replacement of a credential
\* operation was outstanding.
C15_Witness ==
    /\ stage.previous = "PreviousStage"
    /\ Len(eventsUp) = 1
    /\ eventsUp[1].to = "PreviousStage"
    /\ eventsUp[1].event.kind = "MessageReceivedEvent"
    /\ \E id \in SubmittedIds : \E j \in Synthesized(id) : j \in pending

-----------------------------------------------------------------------------
\* The device sample: telemetry collected by store_json.

\* No pipeline is running.
PipelineIdle ==
    /\ SideIdle
    /\ stage = [name |-> "UseSecurityClientStage", next |-> None, previous |-> None,
                pipeline_root |-> "PipelineRoot"]
    /\ heap = << >>
    /\ submitted = << >>
    /\ queue = << >>
    /\ active = {}
    /\ received = << >>
    /\ downstream = << >>
    /\ pending = {}
    /\ callbackLog = << >>
    /\ reported = << >>

\* The frame a waiting task resumes with: its locals, and the list and the
\* files as they are now.
Resumed(t) == [tasks[t].frame EXCEPT !.json_list = json_list, !.files = files]

\* The coroutine of task t has run to frame f: the list and the files are
\* as it left them; it waits at an await, or the call has ended.
Settle(t, json, before, f) ==
    /\ json_list' = f.json_list
    /\ files' = f.files
    /\ IF f.awaiting # None
       THEN /\ tasks' = [tasks EXCEPT ![t] =
                            [json |-> json, before |-> before,
                             frame |-> [f EXCEPT !.json_list = << >>, !.files = NoFiles]]]
            /\ UNCHANGED last
       ELSE /\ tasks' = [tasks EXCEPT ![t] = IdleTask]
            /\ last' = [json |-> json, flush |-> Len(before) >= chunk_size,
                        before |-> before, result |-> f]
    /\ UNCHANGED << chunk_size, file_path_prefix, propVars, opVars, sideVars >>

\* A task calls store_json with the caller's list, pattern and chunk size:
\* the coroutine runs to its return or to its first await.
StoreJson ==
    \E t \in Tasks : \E json \in Messages : \E env \in WriteEnvironments :
        /\ tasks[t].frame.awaiting = None
        /\ started < MaxCalls
        /\ started' = started + 1
        /\ Settle(t, json, json_list,
                  store_json(env, json, json_list, files, file_path_prefix, chunk_size))

\* get_storage_info_for_blob ends and the coroutine goes on.
StorageInfoArrives ==
    \E t \in Tasks : \E env \in UploadEnvironments :
        /\ tasks[t].frame.awaiting = "get_storage_info_for_blob"
        /\ Settle(t, tasks[t].json, tasks[t].before,
                  store_json_after_storage_info(env, Resumed(t)))
        /\ UNCHANGED started

\* notify_blob_upload_status ends and the coroutine goes on.
NotifyEnds ==
    \E t \in Tasks : \E env \in NotifyEnvironments :
        /\ tasks[t].frame.awaiting = "notify_blob_upload_status"
        /\ Settle(t, tasks[t].json, tasks[t].before,
                  store_json_after_notify(env, Resumed(t)))
        /\ UNCHANGED started

\* A waiting task is cancelled.
Cancel ==
    \E t \in Tasks :
        /\ tasks[t].frame.awaiting # None
        /\ Settle(t, tasks[t].json, tasks[t].before, cancel(Resumed(t)))
        /\ UNCHANGED started

InitStoreJson ==
    /\ PipelineIdle
    /\ PropertiesIdle
    /\ json_list = << >>
    /\ chunk_size \in 0..MaxChunk
    /\ file_path_prefix \in FilePathPrefixes
    /\ files = NoFiles
    /\ tasks = [t \in Tasks |-> IdleTask]
    /\ started = 0
    /\ last = NoCall

NextStoreJson ==
    \/ StoreJson
    \/ StorageInfoArrives
    \/ NotifyEnds
    \/ Cancel

SpecStoreJson == InitStoreJson /\ [][NextStoreJson]_vars

\* The device sample: a desired-properties patch acknowledged. The call
\* returns the properties and leaves the caller's patch changed.
CreateReportedProperties ==
    /\ properties = << >>
    /\ properties' = create_reported_properties_from_desired(patch)
    /\ patch' = patch_after_call(patch)
    /\ UNCHANGED << desired, storeVars, opVars, sideVars >>

InitProperties ==
    /\ PipelineIdle
    /\ StoreJsonIdle
    /\ patch \in Patches
    /\ desired = patch
    /\ properties = << >>

SpecProperties == InitProperties /\ [][CreateReportedProperties]_vars

-----------------------------------------------------------------------------
\* What store_blob gave the last call of store_json, if it returned.
BlobReturned == last.result.blob # Unbound /\ ~ Raised(last.result.blob[1])

\* C16: every flush of store_json in which store_blob gave its result ends
\* with exactly one call of notify_blob_upload_status, for the blob's
\* correlation id, whose success flag is the upload's outcome and whose
\* status is 200 for a success and the exception's status code for a
\* failure, whatever the failure.
C16_FlushNotifiesOnce ==
    (last.flush /\ BlobReturned) =>
        LET blob == last.result.blob[1].value
            notified == last.result.notified
        IN  /\ Len(notified) = 1
            /\ notified[1].correlation_id = blob[3].correlationId
            /\ notified[1].is_success = blob[1]
            /\ IF blob[1]
               THEN notified[1].status_code = 200
               ELSE blob[2].status_code = Bound(notified[1].status_code)

\* The messages of a sequence, one per line, no newline after the last.
OnePerLine(content, messages) ==
    /\ Len(content) = 2 * Len(messages) - 1
    /\ \A k \in 1..Len(messages) : content[2 * k - 1] = messages[k]
    /\ \A k \in 1..(Len(messages) - 1) : content[2 * k] = "\n"

\* No call of store_json is waiting at an await.
NoCallInProgress == \A t \in Tasks : tasks[t].frame.awaiting = None

\* C17: once the calls made have ended, by returning or by raising, the
\* list holds no more than chunk_size messages; a call made with fewer than
\* chunk_size messages in the list only appends; any other call flushes: it
\* finds chunk_size messages in the list, the file it writes has them and
\* its own in order, one per line, with no newline at the end, and the list
\* is empty when it ends.
C17_ChunkedFlush ==
    /\ NoCallInProgress => Len(json_list) <= chunk_size
    /\ (last.json # None /\ ~ last.flush) =>
          /\ last.result.json_list = Append(last.before, last.json)
          /\ last.result.written = Unbound
          /\ last.result.notified = << >>
    /\ last.flush =>
          /\ last.result.json_list = << >>
          /\ Len(last.before) = chunk_size
          /\ last.result.written # Unbound =>
                OnePerLine(last.result.written[1], Append(last.before, last.json))

\* C18: when a step of a flush raises an exception, store_json has cleared
\* the list, its file does not exist when it ends, and the exception
\* store_json raises is that exception.
C18_HandlerReraisesSame ==
    (last.flush /\ last.result.caught.type # None) =>
        /\ last.result.json_list = << >>
        /\ last.result.file_path # Unbound =>
              ~ exists(last.result.files, last.result.file_path[1])
        /\ last.result.raised = last.result.caught

\* C19: store_blob does not raise: it returns (True, result, blob_info) or
\* (False, exception, blob_info), blob_info being the storage info of the
\* blob.
C19_StoreBlobNeverRaises ==
    last.result.blob # Unbound =>
        LET r == last.result.blob[1]
        IN  /\ ~ Raised(r)
            /\ Len(r.value) = 3
            /\ r.value[1] \in BOOLEAN
            /\ r.value[1] <=> "data" \in DOMAIN r.value[2]
            /\ r.value[3] = StorageInfo(basename(last.result.file_path[1]))

-----------------------------------------------------------------------------
\* The acknowledgement of a desired value.
Acknowledgement(version, value) ==
    [ac |-> 200, ad |-> "Successfully executed patch", av |-> version, value |-> value]

\* C20: for a patch whose first key is a component, the dict returned has
\* the component alone, and under it every key of the component's values:
\* an ignored key with what the patch had, any other with the
\* acknowledgement of its own desired value.
C20_EachPropertyAcknowledged ==
    (properties # << >> /\ desired[1].key # "$version") =>
        LET values == desired[1].val
            version == desired[2].val
        IN  /\ Len(properties) = 1
            /\ properties[1].key = desired[1].key
            /\ Len(properties[1].val) = Len(values)
            /\ \A k \in 1..Len(values) :
                  /\ properties[1].val[k].key = values[k].key
                  /\ IF values[k].key \in ignore_keys
                     THEN properties[1].val[k].val = values[k].val
                     ELSE properties[1].val[k].val = Acknowledgement(version, values[k].val)

====
